---- MODULE Spec2Model ----
(***************************************************************************)
(* Model of the graph visualisation front end of tiva710/SE_Project_2.     *)
(*                                                                         *)
(* Two variants of the GraphVisualization component are in the source:     *)
(*   - src/frontend/src/pages/HomeView.jsx:298-568, driven by the          *)
(*     graphData prop (normalizeGraph, filtered);                          *)
(*   - src/unnamed/part_001:12-306, which fetches from the backend         *)
(*     (normalizeGraph1, filtered1, fetchGraphForView).                    *)
(* Definitions of the second variant carry the suffix 1.                   *)
(*                                                                         *)
(* JavaScript values are records [k, ik, s, n]: k is the kind ("undef",    *)
(* "null", "str", "num", "obj"), s the characters of a string, n the value *)
(* of a number; an object value is {id: <primitive>} with ik the kind of   *)
(* its id. Strings are sequences of one-character strings, so that the     *)
(* string operations of the code are computed and not assumed.             *)
(***************************************************************************)
EXTENDS Integers, Sequences, FiniteSets, TLC

\* ------------------------------------------------------------ JS values

Undef == [k |-> "undef", ik |-> "-", s |-> <<>>, n |-> 0]
Null == [k |-> "null", ik |-> "-", s |-> <<>>, n |-> 0]
Str(cs) == [k |-> "str", ik |-> "-", s |-> cs, n |-> 0]
Num(i) == [k |-> "num", ik |-> "-", s |-> <<>>, n |-> i]
\* the object {id: v}
Obj(v) == [k |-> "obj", ik |-> v.k, s |-> v.s, n |-> v.n]

\* a ?? b
Nullish(v) == v.k \in {"undef", "null"}
Coalesce(a, b) == IF Nullish(a) THEN b ELSE a

\* !!v
Truthy(v) ==
  CASE v.k = "str" -> v.s # <<>>
    [] v.k = "num" -> v.n # 0
    [] v.k = "obj" -> TRUE
    [] OTHER -> FALSE

\* typeof v === 'object' (true of null as well)
TypeofObject(v) == v.k \in {"obj", "null"}

\* v?.id for a value v that is an object, null or undefined; a primitive has
\* no id property
OptId(v) == IF v.k = "obj" THEN [k |-> v.ik, ik |-> "-", s |-> v.s, n |-> v.n] ELSE Undef

Digits == <<"0", "1", "2", "3", "4", "5", "6", "7", "8", "9">>

RECURSIVE DecimalChars(_)
DecimalChars(i) ==
  IF i < 10 THEN <<Digits[i + 1]>> ELSE DecimalChars(i \div 10) \o <<Digits[(i % 10) + 1]>>

\* String(v)
String(v) ==
  CASE v.k = "str" -> v
    [] v.k = "num" -> Str(DecimalChars(v.n))
    [] v.k = "undef" -> Str(<<"u", "n", "d", "e", "f", "i", "n", "e", "d">>)
    [] v.k = "null" -> Str(<<"n", "u", "l", "l">>)
    [] OTHER -> Str(<<"[", "o", "b", "j", "e", "c", "t", " ", "O", "b", "j", "e", "c", "t", "]">>)

\* ------------------------------------------------------------ strings

HexChars ==
  {"0", "1", "2", "3", "4", "5", "6", "7", "8", "9",
   "a", "b", "c", "d", "e", "f", "A", "B", "C", "D", "E", "F"}

\* the characters of cs from position i on
Tail_(cs, i) == SubSeq(cs, i, Len(cs))

\* /_rec_[a-f0-9]+$/i matches cs at position i
RecSuffixAt(cs, i) ==
  /\ i + 5 <= Len(cs)
  /\ cs[i] = "_"
  /\ cs[i + 1] \in {"r", "R"}
  /\ cs[i + 2] \in {"e", "E"}
  /\ cs[i + 3] \in {"c", "C"}
  /\ cs[i + 4] = "_"
  /\ \A j \in (i + 5)..Len(cs) : cs[j] \in HexChars

\* cs.replace(/_rec_[a-f0-9]+$/i, ''): the leftmost match is removed
StripRecSuffix(cs) ==
  LET at == {i \in 1..Len(cs) : RecSuffixAt(cs, i)}
  IN IF at = {} THEN cs
     ELSE SubSeq(cs, 1, (CHOOSE i \in at : \A j \in at : i <= j) - 1)

\* cs.replace(/_/g, ' ')
UnderscoresToSpaces(cs) == [i \in 1..Len(cs) |-> IF cs[i] = "_" THEN " " ELSE cs[i]]

\* cs.split(':'): the sequence of segments
RECURSIVE SplitColon(_)
SplitColon(cs) ==
  LET at == {i \in 1..Len(cs) : cs[i] = ":"}
  IN IF at = {} THEN <<cs>>
     ELSE LET i == CHOOSE x \in at : \A y \in at : x <= y
          IN <<SubSeq(cs, 1, i - 1)>> \o SplitColon(Tail_(cs, i + 1))

\* k.replace(/s$/, '')
StripTrailingS(cs) ==
  IF Len(cs) > 0 /\ cs[Len(cs)] = "s" THEN SubSeq(cs, 1, Len(cs) - 1) ELSE cs

\* ------------------------------------------------------------ string literals

sNode == <<"N", "o", "d", "e">>
sRelatedTo == <<"R", "E", "L", "A", "T", "E", "D", "_", "T", "O">>
sFeature == <<"F", "e", "a", "t", "u", "r", "e">>
sStakeholder == <<"S", "t", "a", "k", "e", "h", "o", "l", "d", "e", "r">>
sConstraint == <<"C", "o", "n", "s", "t", "r", "a", "i", "n", "t">>
sRequirement == <<"R", "e", "q", "u", "i", "r", "e", "m", "e", "n", "t">>
sTestCase == <<"T", "e", "s", "t", "C", "a", "s", "e">>
sTeam == <<"T", "e", "a", "m">>
sEntity == <<"E", "n", "t", "i", "t", "y">>

\* ------------------------------------------------------------ raw payloads

\* n.props: undefined, null or an object with the fields the code reads
NoProps ==
  [k |-> "undef", id |-> Undef, uid |-> Undef, name |-> Undef, role |-> Undef,
   title |-> Undef, label |-> Undef]
EmptyProps == [NoProps EXCEPT !.k = "obj"]

\* n.props?.f
PropsGet(n, f) == IF n.props.k = "obj" THEN n.props[f] ELSE Undef

\* an entry of the node list: an object with the fields the code reads, or null
EmptyNode ==
  [k |-> "obj", id |-> Undef, label |-> Undef, type |-> Undef, name |-> Undef,
   props |-> NoProps]
NullNode == [EmptyNode EXCEPT !.k = "null"]

\* an entry of the link list
EmptyLink ==
  [k |-> "obj", source |-> Undef, target |-> Undef, from |-> Undef, to |-> Undef,
   start |-> Undef, end |-> Undef, src |-> Undef, dst |-> Undef, u |-> Undef,
   v |-> Undef, s |-> Undef, t |-> Undef, type |-> Undef, label |-> Undef]
NullLink == [EmptyLink EXCEPT !.k = "null"]

\* a payload: undefined, null, a number, a bare array (elems) or an object whose
\* nodes and links are arrays or absent
NoPayload ==
  [k |-> "undef", nodesIsArray |-> FALSE, nodes |-> <<>>, linksIsArray |-> FALSE,
   links |-> <<>>, elems |-> <<>>]
ObjPayload(ns, ls) ==
  [k |-> "obj", nodesIsArray |-> TRUE, nodes |-> ns, linksIsArray |-> TRUE,
   links |-> ls, elems |-> <<>>]
ArrPayload(ns) == [NoPayload EXCEPT !.k = "arr", !.elems = ns]

EmptyGraph == [nodes |-> <<>>, links |-> <<>>]

\* new Set(nodes.map(n => n.id))
NodeIds(nodes) == {nodes[i].id : i \in 1..Len(nodes)}

\* Set.prototype.has: SameValueZero; an object of the payload is never the
\* same reference as a member
SetHas(set, v) == v.k # "obj" /\ v \in set

\* Array.isArray(res?.nodes) ? res.nodes : Array.isArray(res) ? res : []
RawNodes(res) ==
  IF res.k = "obj" /\ res.nodesIsArray THEN res.nodes
  ELSE IF res.k = "arr" THEN res.elems ELSE <<>>

\* Array.isArray(res?.links) ? res.links : []
RawLinks(res) == IF res.k = "obj" /\ res.linksIsArray THEN res.links ELSE <<>>

\* ------------------------------------------------------------ normalizeGraph (HomeView.jsx)

\* the name taken from the id when no name is supplied
NameFromId(cs) ==
  LET cleanId == StripRecSuffix(cs)
      parts == SplitColon(cleanId)
  IN IF Len(parts) > 1 THEN UnderscoresToSpaces(parts[2]) ELSE UnderscoresToSpaces(cleanId)

\* the body of rawNodes.map: [threw, node]
normalizeNode(n) ==
  IF n.k # "obj" THEN [threw |-> TRUE, node |-> n]
  ELSE
    LET id == Coalesce(n.id, Coalesce(PropsGet(n, "id"),
                String(Coalesce(PropsGet(n, "uid"), Str(<<>>)))))
        label == Coalesce(n.label, Coalesce(n.type, Coalesce(PropsGet(n, "label"), Str(sNode))))
        name0 == Coalesce(n.name, Coalesce(PropsGet(n, "name"),
                   Coalesce(PropsGet(n, "role"), PropsGet(n, "title"))))
        derive == ~Truthy(name0) /\ Truthy(id)
    IN IF derive /\ id.k # "str" THEN [threw |-> TRUE, node |-> n]
       ELSE
         LET name1 == IF derive THEN Str(NameFromId(id.s)) ELSE name0
             name == IF ~Truthy(name1) THEN label ELSE name1
         IN [threw |-> FALSE,
             node |-> [n EXCEPT !.id = id, !.label = label, !.name = name, !.type = label]]

\* mutant of normalizeLink: the endpoints are written to the wrong fields
normalizeLinkSwapped(l) ==
  IF l.k # "obj" THEN [threw |-> TRUE, link |-> l]
  ELSE
    LET s == IF TypeofObject(l.source) THEN OptId(l.source)
             ELSE Coalesce(l.source, Coalesce(l.from, Coalesce(l.start,
                    Coalesce(l.src, Coalesce(l.u, l.s)))))
        t == IF TypeofObject(l.target) THEN OptId(l.target)
             ELSE Coalesce(l.target, Coalesce(l.to, Coalesce(l.end,
                    Coalesce(l.dst, Coalesce(l.v, l.t)))))
        relType == Coalesce(l.type, Coalesce(l.label, Str(sRelatedTo)))
    IN [threw |-> FALSE, link |-> [l EXCEPT !.source = t, !.target = s, !.type = relType]]

\* the body of rawLinks.map: [threw, link]
normalizeLink(l) ==
  IF l.k # "obj" THEN [threw |-> TRUE, link |-> l]
  ELSE
    LET s == IF TypeofObject(l.source) THEN OptId(l.source)
             ELSE Coalesce(l.source, Coalesce(l.from, Coalesce(l.start,
                    Coalesce(l.src, Coalesce(l.u, l.s)))))
        t == IF TypeofObject(l.target) THEN OptId(l.target)
             ELSE Coalesce(l.target, Coalesce(l.to, Coalesce(l.end,
                    Coalesce(l.dst, Coalesce(l.v, l.t)))))
        relType == Coalesce(l.type, Coalesce(l.label, Str(sRelatedTo)))
    IN [threw |-> FALSE, link |-> [l EXCEPT !.source = s, !.target = t, !.type = relType]]

\* mutant of validLinks: only the source is looked up
validLinksSourceOnly(links, nodeIds) ==
  SelectSeq(links, LAMBDA l : SetHas(nodeIds, l.source))

\* links.filter(l => nodeIds.has(l.source) && nodeIds.has(l.target))
validLinks(links, nodeIds) ==
  SelectSeq(links, LAMBDA l : SetHas(nodeIds, l.source) /\ SetHas(nodeIds, l.target))

\* normalizeGraph(res): [threw, nodes, links]; threw when an exception leaves it
normalizeGraph(res) ==
  LET rawNodes == RawNodes(res)
      rawLinks == RawLinks(res)
      ns == [i \in 1..Len(rawNodes) |-> normalizeNode(rawNodes[i])]
      ls == [i \in 1..Len(rawLinks) |-> normalizeLink(rawLinks[i])]
  IN IF (\E i \in 1..Len(ns) : ns[i].threw) \/ (\E i \in 1..Len(ls) : ls[i].threw)
     THEN [threw |-> TRUE, nodes |-> <<>>, links |-> <<>>]
     ELSE
       LET nodes == [i \in 1..Len(ns) |-> ns[i].node]
           links == [i \in 1..Len(ls) |-> ls[i].link]
       IN [threw |-> FALSE, nodes |-> nodes, links |-> validLinks(links, NodeIds(nodes))]

\* ------------------------------------------------------------ normalizeGraph (part_001)

normalizeNode1(n) ==
  IF n.k # "obj" THEN [threw |-> TRUE, node |-> n]
  ELSE
    LET id == Coalesce(n.id, PropsGet(n, "id"))
        type == Coalesce(n.type, Coalesce(n.label, Str(sNode)))
        name == Coalesce(n.name, Coalesce(PropsGet(n, "name"), Coalesce(PropsGet(n, "role"),
                  Coalesce(PropsGet(n, "id"), Coalesce(n.id, String(id))))))
    IN [threw |-> FALSE, node |-> [n EXCEPT !.id = id, !.type = type, !.name = name]]

normalizeLink1(l) ==
  IF l.k # "obj" THEN [threw |-> TRUE, link |-> l]
  ELSE
    LET source == Coalesce(l.source, Coalesce(l.from, Coalesce(l.start,
                    Coalesce(l.src, Coalesce(l.u, l.s)))))
        target == Coalesce(l.target, Coalesce(l.to, Coalesce(l.end,
                    Coalesce(l.dst, Coalesce(l.v, l.t)))))
    IN [threw |-> FALSE, link |-> [l EXCEPT !.source = source, !.target = target]]

\* typeof e === 'object' ? e?.id : e
EndpointId(e) == IF TypeofObject(e) THEN OptId(e) ELSE e

validLinks1(links, index) ==
  SelectSeq(links, LAMBDA l : SetHas(index, EndpointId(l.source))
                              /\ SetHas(index, EndpointId(l.target)))

normalizeGraph1(res) ==
  LET rawNodes == RawNodes(res)
      rawLinks == RawLinks(res)
      ns == [i \in 1..Len(rawNodes) |-> normalizeNode1(rawNodes[i])]
      ls == [i \in 1..Len(rawLinks) |-> normalizeLink1(rawLinks[i])]
  IN IF (\E i \in 1..Len(ns) : ns[i].threw) \/ (\E i \in 1..Len(ls) : ls[i].threw)
     THEN [threw |-> TRUE, nodes |-> <<>>, links |-> <<>>]
     ELSE
       LET nodes == [i \in 1..Len(ns) |-> ns[i].node]
           links == [i \in 1..Len(ls) |-> ls[i].link]
       IN [threw |-> FALSE, nodes |-> nodes, links |-> validLinks1(links, NodeIds(nodes))]

\* ------------------------------------------------------------ filtered (HomeView.jsx)

\* new Set(Object.entries(activeFilters).filter(([, on]) => on).map(([k]) => k))
enabledTypes(filters) == {Str(k) : k \in {f \in DOMAIN filters : filters[f]}}

\* mutant of filtered: the links are looked up among all the nodes of the graph
filteredKeepAllIds(g, filters) ==
  LET enabled == enabledTypes(filters)
      nodes == SelectSeq(g.nodes, LAMBDA n : SetHas(enabled, n.label) \/ SetHas(enabled, n.type))
      keep == NodeIds(g.nodes)
      links == SelectSeq(g.links, LAMBDA l : SetHas(keep, EndpointId(l.source))
                                             /\ SetHas(keep, EndpointId(l.target)))
  IN [nodes |-> nodes, links |-> links]

\* the visible subgraph of the useMemo callback
filtered(g, filters) ==
  LET enabled == enabledTypes(filters)
      nodes == SelectSeq(g.nodes, LAMBDA n : SetHas(enabled, n.label) \/ SetHas(enabled, n.type))
      keep == NodeIds(nodes)
      links == SelectSeq(g.links, LAMBDA l : SetHas(keep, EndpointId(l.source))
                                             /\ SetHas(keep, EndpointId(l.target)))
  IN [nodes |-> nodes, links |-> links]

\* ------------------------------------------------------------ filtered (part_001)

\* ... .map(([k]) => k.replace(/s$/, ''))
enabledTypes1(filters) == {Str(StripTrailingS(k)) : k \in {f \in DOMAIN filters : filters[f]}}

filtered1(g, filters) ==
  LET enabled == enabledTypes1(filters)
      nodes == SelectSeq(g.nodes, LAMBDA n : SetHas(enabled, n.type))
      keep == NodeIds(nodes)
      links == SelectSeq(g.links, LAMBDA l : SetHas(keep, EndpointId(l.source))
                                             /\ SetHas(keep, EndpointId(l.target)))
  IN [nodes |-> nodes, links |-> links]

\* ------------------------------------------------------------ state

VARIABLES
  graphData,      \* HomeView.jsx: the graphData prop
  data,           \* part_001: the data prop
  mounted,        \* the mount effects have run
  activeFilters,  \* useState: filter key -> BOOLEAN
  activeView,     \* useState
  graph,          \* useState: [nodes, links]
  loading,        \* useState (part_001)
  err,            \* useState: null or a message
  filteredMemo,   \* useMemo: [deps, value], the subgraph handed to ForceGraph2D
  pending,        \* part_001: the calls of fetchGraphForView that await the backend
  epoch,          \* history: the number of view selections so far
  graphEpoch,     \* history: the epoch of the fetch that set graph last
  last,           \* history: the operation that acted last
  messages,       \* ChatInterface useState: the messages, [sender, text] each
  input,          \* ChatInterface useState: the text of the input box
  chatLoading,    \* ChatInterface useState loading
  chatPending,    \* the queries of handleSend that await the backend
  uploading,      \* Sidebar useState
  transcriptions, \* Sidebar useState: the entries, newest first
  uploadPending,  \* the files of handleAudioUpload that await the backend
  alerts,         \* the messages given to window.alert, in order
  loginFlows,     \* LoginButton: the state of the flow every click started
  loginCalls,     \* the number of calls of login() of the AuthContext
  splitPosition,  \* HomeView useState: percentage
  isDragging      \* HomeView useState

\* the state of GraphVisualization
graphVars ==
  <<graphData, data, mounted, activeFilters, activeView, graph, loading, err, filteredMemo,
    pending, epoch, graphEpoch>>

chatVars == <<messages, input, chatLoading, chatPending>>
sidebarVars == <<uploading, transcriptions, uploadPending, alerts>>
loginVars == <<loginFlows, loginCalls>>
splitVars == <<splitPosition, isDragging>>

\* the state of the components around GraphVisualization
pageVars == <<chatVars, sidebarVars, loginVars, splitVars>>

vars == <<graphVars, last, pageVars>>

fetchVars == <<pending, epoch, graphEpoch, last>>

\* colorForType(t): the fill colour of a node whose label is t
colorForType(t) ==
  IF t = Str(sFeature) THEN "#2563eb"
  ELSE IF t = Str(sStakeholder) THEN "#16a34a"
  ELSE IF t = Str(sConstraint) THEN "#dc2626"
  ELSE IF t = Str(sRequirement) THEN "#7c3aed"
  ELSE IF t = Str(sTestCase) THEN "#f59e0b"
  ELSE IF t = Str(sTeam) THEN "#ec4899"
  ELSE "#6b7280"

\* useState initial values of HomeView.jsx
InitialFilters ==
  [k \in {sRequirement, sStakeholder, sTestCase, sFeature, sConstraint, sTeam, sEntity} |-> TRUE]

views == {"All Nodes", "Stakeholder Impact", "Feature Clusters"}

sTypeError == <<"T", "y", "p", "e", "E", "r", "r", "o", "r">>
sFailedToNormalize == <<"F", "a", "i", "l", "e", "d", " ", "t", "o", " ", "n", "o", "r", "m", "a", "l", "i", "z", "e">>

\* mutant of useMemoFiltered: the dependency list is [graph]
useMemoFilteredGraphOnly(memo, g, filters) ==
  IF memo.deps[1] # g
  THEN [deps |-> <<g, filters>>, value |-> filtered(g, filters)]
  ELSE memo

\* useMemo(..., [graph, activeFilters]): recomputed in the render that follows a
\* change of a dependency
useMemoFiltered(memo, g, filters) ==
  IF memo.deps # <<g, filters>>
  THEN [deps |-> <<g, filters>>, value |-> filtered(g, filters)]
  ELSE memo

\* e.message || 'Failed to normalize' for the TypeError normalizeGraph throws
NormalizeErrorMessage == IF Truthy(Str(sTypeError)) THEN Str(sTypeError) ELSE Str(sFailedToNormalize)

\* the effect on [graphData, graphReady, transcriptId] followed by the render
\* its state updates cause
EffectGraphData(p) ==
  LET isGraph == p.k = "obj" /\ p.nodesIsArray
      g == normalizeGraph(p)
      graph2 == IF isGraph /\ ~g.threw THEN [nodes |-> g.nodes, links |-> g.links] ELSE EmptyGraph
  IN /\ graph' = graph2
     /\ err' = IF isGraph THEN (IF g.threw THEN NormalizeErrorMessage ELSE Null) ELSE err
     /\ filteredMemo' = useMemoFiltered(filteredMemo, graph2, activeFilters)

\* first render and mount of the component
HomeMount ==
  /\ ~mounted
  /\ mounted' = TRUE
  /\ EffectGraphData(graphData)
  /\ UNCHANGED <<graphData, data, activeFilters, activeView, loading, fetchVars>>
  /\ UNCHANGED pageVars

\* the parent renders the component with another graphData
HomeGraphDataChange(p) ==
  /\ mounted
  /\ graphData' = p
  /\ EffectGraphData(p)
  /\ UNCHANGED <<data, mounted, activeFilters, activeView, loading, fetchVars>>
  /\ UNCHANGED pageVars

\* toggleFilter(filterName) and the render that follows
toggleFilter(filterName) ==
  /\ mounted
  /\ activeFilters' = [activeFilters EXCEPT ![filterName] = ~activeFilters[filterName]]
  /\ filteredMemo' = useMemoFiltered(filteredMemo, graph, activeFilters')
  /\ UNCHANGED <<graphData, data, mounted, activeView, graph, loading, err, fetchVars>>
  /\ UNCHANGED pageVars

\* onClick of a view button: setActiveView(view)
HomeSetActiveView(view) ==
  /\ mounted
  /\ activeView' = view
  /\ UNCHANGED <<graphData, data, mounted, activeFilters, graph, loading, err, filteredMemo, fetchVars>>
  /\ UNCHANGED pageVars

\* ------------------------------------------------------------ GraphVisualization (part_001)

sFailedToLoad == <<"F", "a", "i", "l", "e", "d", " ", "t", "o", " ", "l", "o", "a", "d", " ", "g", "r", "a", "p", "h">>

\* colorForType(t): the fill colour of a node of type t
colorForType1(t) ==
  IF t = Str(sFeature) THEN "#2563eb"
  ELSE IF t = Str(sStakeholder) THEN "#16a34a"
  ELSE IF t = Str(sConstraint) THEN "#dc2626"
  ELSE "#7c3aed"

\* useState initial value of activeFilters
InitialFilters1 ==
  [k \in {sFeature \o <<"s">>, sStakeholder \o <<"s">>, sConstraint \o <<"s">>,
          sRequirement \o <<"s">>} |-> TRUE]

views1 == {"All Nodes", "Dependency Chain", "Stakeholder Impact", "Feature Clusters"}

useMemoFiltered1(memo, g, filters) ==
  IF memo.deps # <<g, filters>>
  THEN [deps |-> <<g, filters>>, value |-> filtered1(g, filters)]
  ELSE memo

\* graph.nodes.find(n => n.type === ty)?.id
firstIdOfType(nodes, ty) ==
  LET at == {i \in 1..Len(nodes) : nodes[i].type = Str(ty)}
  IN IF at = {} THEN Undef ELSE nodes[CHOOSE i \in at : \A j \in at : i <= j].id

\* the seed of the Dependency Chain branch
seedOf(g) ==
  Coalesce(firstIdOfType(g.nodes, sFeature), Coalesce(firstIdOfType(g.nodes, sStakeholder), Null))

\* a call of a function of the api module: its name and its arguments
Call(fn, id, limit) == [fn |-> fn, id |-> id, limit |-> limit]

\* mutant of callsOf: the Dependency Chain branch without its else branch
callsOfNoFallback(view, seed) ==
  CASE view = "All Nodes" -> <<Call("getOverview", Undef, 500)>>
    [] view = "Stakeholder Impact" -> <<Call("getStakeholdersOverview", Undef, 500)>>
    [] view = "Feature Clusters" -> <<Call("getFeaturesOverview", Undef, 500)>>
    [] OTHER -> <<Call("getFeatureNeighborhood", seed, 500),
                  Call("getStakeholderNeighborhood", seed, 500)>>

\* the backend calls fetchGraphForView(view) makes before its await, in order
callsOf(view, seed) ==
  CASE view = "All Nodes" -> <<Call("getOverview", Undef, 500)>>
    [] view = "Stakeholder Impact" -> <<Call("getStakeholdersOverview", Undef, 500)>>
    [] view = "Feature Clusters" -> <<Call("getFeaturesOverview", Undef, 500)>>
    [] view = "Dependency Chain" ->
         IF Truthy(seed)
         THEN <<Call("getFeatureNeighborhood", seed, 500),
                Call("getStakeholderNeighborhood", seed, 500)>>
         ELSE <<Call("getFeaturesOverview", Undef, 200)>>
    [] OTHER -> <<>>

\* fetchGraphForView(view) up to its await, called under selection epoch e with
\* the graph g of the render that runs the effect
startFetch(view, e, g) ==
  LET seed == IF view = "Dependency Chain" THEN seedOf(g) ELSE Null
  IN [epoch |-> e, view |-> view, seed |-> seed, calls |-> callsOf(view, seed)]

\* the nodes of the All Nodes branch: the first node of every id
RECURSIVE dedupeFrom(_, _, _)
dedupeFrom(nodes, i, seen) ==
  IF i > Len(nodes) THEN <<>>
  ELSE IF SetHas(seen, nodes[i].id) THEN dedupeFrom(nodes, i + 1, seen)
  ELSE <<nodes[i]>> \o dedupeFrom(nodes, i + 1, seen \cup {nodes[i].id})

\* mutant of mergeAllNodes: no de-duplication of the nodes
mergeAllNodesNoDedupe(A, B) ==
  [nodes |-> A.nodes \o B.nodes, links |-> A.links \o B.links]

\* mutant of mergeAllNodes: the nodes of A alone are de-duplicated
mergeAllNodesDedupeA(A, B) ==
  [nodes |-> dedupeFrom(A.nodes, 1, {}) \o B.nodes, links |-> A.links \o B.links]

\* the graph the All Nodes branch sets from A and B
mergeAllNodes(A, B) ==
  [nodes |-> dedupeFrom(A.nodes \o B.nodes, 1, {}), links |-> A.links \o B.links]

Thrown(message) == [threw |-> TRUE, graph |-> EmptyGraph, message |-> message]
Returned(g) == [threw |-> FALSE, graph |-> [nodes |-> g.nodes, links |-> g.links], message |-> Undef]

\* mutant of setNormalized: the response is set as it came
setNormalizedRaw(res) ==
  Returned([nodes |-> RawNodes(res), links |-> RawLinks(res)])

\* setGraph(normalizeGraph(res)), or the TypeError normalizeGraph throws
setNormalized(res) ==
  LET g == normalizeGraph1(res) IN IF g.threw THEN Thrown(Str(sTypeError)) ELSE Returned(g)

\* payload && ...: a response body that is undefined or null is falsy
TruthyPayload(res) == res.k \notin {"undef", "null"}

\* the try block of fetchGraphForView after its await: outs are the outcomes of
\* the calls of f, [ok, value, message] each
fetchResult(f, outs) ==
  CASE f.view = "All Nodes" ->
         IF ~outs[1].ok THEN Thrown(outs[1].message)
         ELSE LET A == normalizeGraph1(outs[1].value)
                  B == normalizeGraph1(NoPayload)
              IN IF A.threw \/ B.threw THEN Thrown(Str(sTypeError))
                 ELSE Returned(mergeAllNodes(A, B))
    [] f.view \in {"Stakeholder Impact", "Feature Clusters"} ->
         IF ~outs[1].ok THEN Thrown(outs[1].message) ELSE setNormalized(outs[1].value)
    [] f.view = "Dependency Chain" /\ Truthy(f.seed) ->
         LET candidate ==
               IF outs[1].ok /\ TruthyPayload(outs[1].value) THEN outs[1].value
               ELSE IF outs[2].ok /\ TruthyPayload(outs[2].value) THEN outs[2].value
               ELSE ObjPayload(<<>>, <<>>)
         IN setNormalized(candidate)
    [] f.view = "Dependency Chain" /\ ~Truthy(f.seed) ->
         IF ~outs[1].ok THEN Thrown(outs[1].message) ELSE setNormalized(outs[1].value)
    [] OTHER -> Returned(EmptyGraph)

RemoveAt(seq, i) == SubSeq(seq, 1, i - 1) \o SubSeq(seq, i + 1, Len(seq))

\* the calls of pending[i] settle with outs: the rest of fetchGraphForView (try,
\* catch, finally) and the render that follows
Settle(i, outs) ==
  LET f == pending[i]
      r == fetchResult(f, outs)
  IN /\ mounted
     /\ graph' = r.graph
     /\ err' = IF r.threw
               THEN (IF Truthy(r.message) THEN r.message ELSE Str(sFailedToLoad))
               ELSE err
     /\ loading' = FALSE
     /\ pending' = RemoveAt(pending, i)
     /\ graphEpoch' = f.epoch
     /\ filteredMemo' = useMemoFiltered1(filteredMemo, r.graph, activeFilters)
     /\ last' = [op |-> "settle", view |-> f.view, epoch |-> f.epoch, seed |-> f.seed,
                 calls |-> f.calls, outs |-> outs, threw |-> r.threw]
     /\ UNCHANGED <<graphData, data, mounted, activeFilters, activeView, epoch>>
     /\ UNCHANGED pageVars

\* mutant of NoData: the data prop is not looked at
NoDataAnyway(d) == TRUE

\* data?.nodes || data?.links
HasGraph(d) == d.k = "obj" /\ (d.nodesIsArray \/ d.linksIsArray)

\* !data
NoData(d) == d.k \in {"undef", "null"}

\* first render, then both effects: the one on [] and the one on [activeView]
Mount ==
  LET first == IF HasGraph(data) THEN <<>> ELSE <<startFetch(activeView, epoch, graph)>>
      second == IF NoData(data) THEN <<startFetch(activeView, epoch, graph)>> ELSE <<>>
      started == first \o second
      g == normalizeGraph1(data)
      graph2 == IF HasGraph(data) THEN [nodes |-> g.nodes, links |-> g.links] ELSE graph
  IN /\ ~mounted
     /\ mounted' = TRUE
     /\ graph' = graph2
     /\ pending' = pending \o started
     /\ loading' = IF started # <<>> THEN TRUE ELSE loading
     /\ filteredMemo' = useMemoFiltered1(filteredMemo, graph2, activeFilters)
     /\ last' = [op |-> "mount", view |-> activeView, epoch |-> epoch, started |-> started]
     /\ UNCHANGED <<graphData, data, activeFilters, activeView, err, epoch, graphEpoch>>
     /\ UNCHANGED pageVars

\* what the component returns: the loading screen, the error screen, or the
\* controls bar with the graph
screenOf(ld, e, g) ==
  IF ld /\ Len(g.nodes) = 0 THEN "loading"
  ELSE IF ~ld /\ Truthy(e) /\ Len(g.nodes) = 0 THEN "error"
  ELSE "graph"

\* onClick of a view button: setActiveView(view); a changed activeView runs the
\* effect on [activeView], the same value renders nothing. The buttons exist
\* only in the render with the controls bar
setActiveView(view) ==
  LET changed == view # activeView
      started == IF changed /\ NoData(data)
                 THEN <<startFetch(view, epoch + 1, graph)>> ELSE <<>>
  IN /\ mounted
     /\ screenOf(loading, err, graph) = "graph"
     /\ activeView' = view
     /\ epoch' = IF changed THEN epoch + 1 ELSE epoch
     /\ pending' = pending \o started
     /\ loading' = IF started # <<>> THEN TRUE ELSE loading
     /\ err' = IF started # <<>> THEN Null ELSE err
     /\ last' = [op |-> "select", view |-> view, epoch |-> epoch', started |-> started]
     /\ UNCHANGED <<graphData, data, mounted, activeFilters, graph, filteredMemo, graphEpoch>>
     /\ UNCHANGED pageVars

\* toggleFilter(filterName) and the render that follows
toggleFilter1(filterName) ==
  /\ mounted
  /\ screenOf(loading, err, graph) = "graph"
  /\ activeFilters' = [activeFilters EXCEPT ![filterName] = ~activeFilters[filterName]]
  /\ filteredMemo' = useMemoFiltered1(filteredMemo, graph, activeFilters')
  /\ UNCHANGED <<graphData, data, mounted, activeView, graph, loading, err, fetchVars>>
  /\ UNCHANGED pageVars

\* ------------------------------------------------------------ inputs

MaxNodes == 2
MaxLinks == 1

SeqsUpTo(S, n) == UNION {[1..m -> S] : m \in 0..n}

idFA == <<"f", ":", "a", "_", "b", "_", "r", "e", "c", "_", "1", "a">>
idS1 == <<"s", "1">>

NormNodes ==
  { [EmptyNode EXCEPT !.id = Str(idFA), !.label = Str(sFeature), !.props = EmptyProps],
    [EmptyNode EXCEPT !.id = Str(idS1), !.label = Str(sStakeholder),
                      !.props = [EmptyProps EXCEPT !.name = Str(<<"A", "l">>)]],
    [EmptyNode EXCEPT !.id = Str(idFA), !.type = Str(sStakeholder), !.name = Str(<<"X">>)],
    [EmptyNode EXCEPT !.id = Num(1), !.type = Str(sFeature), !.name = Str(<<"N", "1">>)],
    [EmptyNode EXCEPT !.id = Num(1)],
    NullNode,
    [EmptyNode EXCEPT !.label = Str(<<>>)],
    [EmptyNode EXCEPT !.props = [EmptyProps EXCEPT !.uid = Num(7), !.role = Str(<<"P", "M">>)]],
    [EmptyNode EXCEPT !.id = Str(<<"c", "_", "x">>), !.name = Str(<<>>), !.label = Str(sConstraint)],
    EmptyNode }

NormLinks ==
  { [EmptyLink EXCEPT !.source = Str(idFA), !.target = Str(idS1)],
    [EmptyLink EXCEPT !.from = Str(idS1), !.to = Str(idFA), !.label = Str(<<"O", "W", "N", "S">>)],
    [EmptyLink EXCEPT !.source = Obj(Str(idS1)), !.target = Obj(Num(1))],
    [EmptyLink EXCEPT !.source = Str(<<"z", "z">>), !.target = Str(idS1)],
    [EmptyLink EXCEPT !.source = Num(1), !.target = Num(1)],
    [EmptyLink EXCEPT !.from = Obj(Str(idS1)), !.to = Str(idS1)],
    NullLink,
    EmptyLink }

NormPayloads ==
  {ObjPayload(ns, ls) : ns \in SeqsUpTo(NormNodes, MaxNodes), ls \in SeqsUpTo(NormLinks, MaxLinks)}
  \cup {ArrPayload(ns) : ns \in SeqsUpTo(NormNodes, MaxNodes)}
  \cup {NoPayload, [NoPayload EXCEPT !.k = "null"], [NoPayload EXCEPT !.k = "num"],
        [NoPayload EXCEPT !.k = "obj"]}

\* the backend of the fetching component
MaxSelect == 2

idF1 == <<"f", "1">>

nodeF == [EmptyNode EXCEPT !.id = Str(idF1), !.type = Str(sFeature), !.name = Str(<<"P", "a", "y">>)]
nodeS == [EmptyNode EXCEPT !.id = Str(idS1), !.label = Str(sStakeholder),
                           !.props = [EmptyProps EXCEPT !.name = Str(<<"A", "l">>)]]
nodeDup == [EmptyNode EXCEPT !.id = Str(idF1), !.type = Str(sStakeholder), !.name = Str(<<"D", "u", "p">>)]
linkFS == [EmptyLink EXCEPT !.source = Str(idF1), !.target = Str(idS1)]

payloadFS == ObjPayload(<<nodeF, nodeS>>, <<linkFS>>)
payloadDup == ObjPayload(<<nodeF, nodeDup, nodeS>>, <<linkFS>>)
payloadS == ObjPayload(<<nodeS>>, <<>>)
payloadBad == ObjPayload(<<NullNode>>, <<>>)

\* a Feature whose id is the number 0, a Constraint, and the graphs with them
nodeZero == [EmptyNode EXCEPT !.id = Num(0), !.type = Str(sFeature), !.name = Str(<<"Z">>)]
nodeC == [EmptyNode EXCEPT !.id = Str(<<"c", "1">>), !.type = Str(sConstraint)]
payloadZero == ObjPayload(<<nodeS, nodeZero>>, <<>>)
payloadC == ObjPayload(<<nodeC>>, <<>>)
payloadEmpty == ObjPayload(<<>>, <<>>)

\* the data prop: absent, an object without nodes and links, or a graph
DataProps == {NoPayload, [NoPayload EXCEPT !.k = "obj"], payloadFS}

\* the graphData prop of the HomeView.jsx component
idC1 == <<"c", "1">>

homeF == [EmptyNode EXCEPT !.id = Str(idF1), !.label = Str(sFeature), !.type = Str(sFeature),
                           !.name = Str(<<"P", "a", "y">>)]
homeS == [EmptyNode EXCEPT !.id = Str(idS1), !.label = Str(sStakeholder), !.name = Str(<<"A", "l">>)]
homeC == [EmptyNode EXCEPT !.id = Str(idC1), !.label = Str(sConstraint)]
homeDup == [EmptyNode EXCEPT !.id = Str(idF1), !.label = Str(sStakeholder)]
homeN == [EmptyNode EXCEPT !.id = Str(<<"n", "1">>)]
linkSC == [EmptyLink EXCEPT !.from = Str(idS1), !.to = Str(idC1)]
linkObj == [EmptyLink EXCEPT !.source = Obj(Str(idF1)), !.target = Obj(Str(idC1))]

HomePayloads ==
  { NoPayload,
    [NoPayload EXCEPT !.k = "obj"],
    ObjPayload(<<>>, <<>>),
    ObjPayload(<<homeF, homeS, homeC>>, <<linkFS, linkSC>>),
    ObjPayload(<<homeF, homeDup, homeS>>, <<linkFS>>),
    ObjPayload(<<homeF, homeC, homeN>>, <<linkObj>>),
    ObjPayload(<<homeS, NullNode>>, <<>>) }

\* ------------------------------------------------------------ api/index.jsx

\* the message of the Error the response interceptor rejects with
sHttpError == <<"H", "T", "T", "P", " ", "5", "0", "0">>

Fulfilled(payloads) == {[ok |-> TRUE, value |-> p, message |-> Undef] : p \in payloads}
Rejected == [ok |-> FALSE, value |-> NoPayload, message |-> Str(sHttpError)]

\* the ways a call can settle: r.data of a response, or the interceptor's Error
getOverview(limit) == Fulfilled({payloadFS, payloadDup, payloadC}) \cup {Rejected}
getStakeholdersOverview(limit) == Fulfilled({payloadS, payloadEmpty}) \cup {Rejected}
getFeaturesOverview(limit) == Fulfilled({payloadFS, payloadBad, payloadZero}) \cup {Rejected}
getStakeholderNeighborhood(id, k, limit) == Fulfilled({payloadS}) \cup {Rejected}
getFeatureNeighborhood(id, k, limit) == Fulfilled({payloadFS, NoPayload}) \cup {Rejected}

outcomesOf(call) ==
  CASE call.fn = "getOverview" -> getOverview(call.limit)
    [] call.fn = "getStakeholdersOverview" -> getStakeholdersOverview(call.limit)
    [] call.fn = "getFeaturesOverview" -> getFeaturesOverview(call.limit)
    [] call.fn = "getStakeholderNeighborhood" -> getStakeholderNeighborhood(call.id, 1, call.limit)
    [] call.fn = "getFeatureNeighborhood" -> getFeatureNeighborhood(call.id, 1, call.limit)

\* the ways the calls of a fetch can settle together
settlementsOf(calls) ==
  {outs \in [1..Len(calls) -> UNION {outcomesOf(calls[i]) : i \in 1..Len(calls)}] :
     \A i \in 1..Len(calls) : outs[i] \in outcomesOf(calls[i])}

\* ------------------------------------------------------------ ChatInterface (HomeView.jsx)

\* the most messages the chat is followed for
MaxMessages == 3

sNoResponse == "No response from server."
\* the text of the catch, after its warning sign
sUnreachable == "Error: Unable to reach backend."

\* what the user types into the input box: nothing, blanks, a query, a query
\* between blanks
ChatInputs == {<<>>, <<" ">>, <<" ", " ">>, <<"h", "i">>, <<" ", "q", " ">>}


\* mutant of trim: nothing is removed
trimNothing(cs) == cs

\* cs.trim(): the whitespace at both ends is removed
RECURSIVE trim(_)
trim(cs) ==
  IF cs = <<>> THEN cs
  ELSE IF cs[1] = " " THEN trim(Tail(cs))
  ELSE IF cs[Len(cs)] = " " THEN trim(SubSeq(cs, 1, Len(cs) - 1))
  ELSE cs

\* the ways axios.post('/conversation/chat') settles: res.data with an answer,
\* with an error, with neither, or a rejection
ChatOutcomes ==
  { [ok |-> TRUE, answer |-> "A", error |-> ""],
    [ok |-> TRUE, answer |-> "", error |-> "E"],
    [ok |-> TRUE, answer |-> "", error |-> ""],
    [ok |-> FALSE, answer |-> "", error |-> ""] }

\* res.data?.answer || res.data?.error || 'No response from server.'
answerOf(out) ==
  IF out.answer # "" THEN out.answer ELSE IF out.error # "" THEN out.error ELSE sNoResponse

userMessage(text) == [sender |-> "user", text |-> text]
\* a text is a sequence of pieces: the characters typed, or one text of the code
botMessage(text) == [sender |-> "bot", text |-> <<text>>]

\* mutant of afterResponse: a failed request leaves the error message alone
afterResponseOnlyError(prev, out) ==
  IF out.ok THEN Append(prev, botMessage(answerOf(out))) ELSE <<botMessage(sUnreachable)>>

\* setMessages((prev) => [...prev, botMessage]) of the try and of the catch
afterResponse(prev, out) ==
  IF out.ok THEN Append(prev, botMessage(answerOf(out)))
  ELSE Append(prev, botMessage(sUnreachable))

\* onChange of the input box
setInput(value) ==
  /\ input' = value
  /\ last' = [op |-> "onChange"]
  /\ UNCHANGED <<messages, chatLoading, chatPending>>
  /\ UNCHANGED <<graphVars, sidebarVars, loginVars, splitVars>>

\* handleSend up to its await: via is the Send button or the Enter key
handleSend(via) ==
  LET blank == trim(input) = <<>>
  IN /\ IF blank
        THEN UNCHANGED <<messages, input, chatLoading, chatPending>>
        ELSE /\ Len(messages) < MaxMessages
             /\ messages' = Append(messages, userMessage(input))
             /\ input' = <<>>
             /\ chatLoading' = TRUE
             /\ chatPending' = Append(chatPending, input)
     /\ last' = [op |-> "handleSend", via |-> via, sent |-> ~blank]
     /\ UNCHANGED <<graphVars, sidebarVars, loginVars, splitVars>>

\* onClick of the Send button, which is disabled while loading
SendClick == ~chatLoading /\ handleSend("button")

\* onKeyDown of the input box with the Enter key
SendEnter == handleSend("enter")

\* the request of chatPending[i] settles with out: the rest of handleSend
ChatSettle(i, out) ==
  /\ messages' = afterResponse(messages, out)
  /\ chatLoading' = FALSE
  /\ chatPending' = RemoveAt(chatPending, i)
  /\ last' = [op |-> "chatSettle", query |-> chatPending[i], ok |-> out.ok]
  /\ UNCHANGED input
  /\ UNCHANGED <<graphVars, sidebarVars, loginVars, splitVars>>

\* ------------------------------------------------------------ Sidebar (Sidebar.jsx)

\* the most uploads the sidebar is followed for
MaxUploads == 3


\* e.target.files[0] of an empty selection
NoFile == [name |-> "", type |-> ""]

\* what the change event of the file input carries: accept="audio/*" filters
\* the picker only, a dropped or "All files" selection is of any type
Files ==
  { NoFile,
    [name |-> "a.mp3", type |-> "audio/mpeg"],
    [name |-> "n.txt", type |-> "text/plain"] }

\* the ways axios.post('/transcribe') settles: res.data with an entry, without
\* one, or a rejection
UploadOutcomes == {"entry", "noEntry", "rejected"}

\* res.data.entry of the backend for a file
entryOf(file) == [filename |-> file.name]

\* alert(...) of the three branches after the await
alertOf(file, out) ==
  IF out = "entry" THEN <<"Transcribed: ", file.name>>
  ELSE IF out = "noEntry" THEN <<"Error: No transcription returned from backend">>
  ELSE <<"Error during transcription upload">>

\* handleAudioUpload up to its await; the input is disabled while uploading
handleAudioUpload(file) ==
  /\ ~uploading
  /\ IF file = NoFile
        THEN UNCHANGED <<uploading, uploadPending>>
        ELSE /\ Len(alerts) < MaxUploads
             /\ uploading' = TRUE
             /\ uploadPending' = Append(uploadPending, file)
  /\ last' = [op |-> "handleAudioUpload", file |-> file]
  /\ UNCHANGED <<transcriptions, alerts>>
  /\ UNCHANGED <<graphVars, chatVars, loginVars, splitVars>>

\* the request of uploadPending[i] settles with out: the rest of
\* handleAudioUpload
UploadSettle(i, out) ==
  LET file == uploadPending[i]
  IN /\ transcriptions' =
          IF out = "entry" THEN <<entryOf(file)>> \o transcriptions ELSE transcriptions
     /\ alerts' = Append(alerts, alertOf(file, out))
     /\ uploading' = FALSE
     /\ uploadPending' = RemoveAt(uploadPending, i)
     /\ last' = [op |-> "uploadSettle", file |-> file]
     /\ UNCHANGED <<graphVars, chatVars, loginVars, splitVars>>

\* ------------------------------------------------------------ LoginButton (LoginButton.jsx)

\* the most clicks on the login button
MaxClicks == 4

\* a flow is at the Google popup, then at the userinfo request, then over

Over(flow) == flow.at \in {"loggedIn", "failed"}

\* onClick: loginAction(); early records that no flow was over at the click
LoginClick ==
  /\ Len(loginFlows) < MaxClicks
  /\ loginFlows' = Append(loginFlows,
        [at |-> "popup",
         early |-> \A i \in 1..Len(loginFlows) : ~Over(loginFlows[i])])
  /\ last' = [op |-> "loginClick"]
  /\ UNCHANGED loginCalls
  /\ UNCHANGED <<graphVars, chatVars, sidebarVars, splitVars>>

\* onSuccess(tokenResponse) up to its await of the userinfo request
onSuccess(i) ==
  /\ loginFlows[i].at = "popup"
  /\ loginFlows' = [loginFlows EXCEPT ![i].at = "userinfo"]
  /\ last' = [op |-> "onSuccess"]
  /\ UNCHANGED loginCalls
  /\ UNCHANGED <<graphVars, chatVars, sidebarVars, splitVars>>

\* onError of the popup
onError(i) ==
  /\ loginFlows[i].at = "popup"
  /\ loginFlows' = [loginFlows EXCEPT ![i].at = "failed"]
  /\ last' = [op |-> "onError"]
  /\ UNCHANGED loginCalls
  /\ UNCHANGED <<graphVars, chatVars, sidebarVars, splitVars>>

\* the userinfo request of flow i settles: login(res.data), or the catch
UserinfoSettle(i, ok) ==
  /\ loginFlows[i].at = "userinfo"
  /\ loginFlows' = [loginFlows EXCEPT ![i].at = IF ok THEN "loggedIn" ELSE "failed"]
  /\ loginCalls' = IF ok THEN loginCalls + 1 ELSE loginCalls
  /\ last' = [op |-> "userinfoSettle"]
  /\ UNCHANGED <<graphVars, chatVars, sidebarVars, splitVars>>

\* ------------------------------------------------------------ HomeView split (HomeView.jsx)

\* e.clientX of a mouse move, in pixels
MaxClientX == 60

\* rect.left and rect.width of the container

\* a JS number: finite, or what a division by 0 gives
Finite(v) == [kind |-> "finite", value |-> v]

\* x / 0: an infinity, or NaN for 0 / 0
DivideByZero(x) ==
  [kind |-> IF x > 0 THEN "+Infinity" ELSE IF x < 0 THEN "-Infinity" ELSE "NaN", value |-> 0]

\* number >= limit and number <= limit
AtLeast(number, limit) ==
  number.kind = "+Infinity" \/ (number.kind = "finite" /\ number.value >= limit)
AtMost(number, limit) ==
  number.kind = "-Infinity" \/ (number.kind = "finite" /\ number.value <= limit)

\* ((e.clientX - rect.left) / rect.width) * 100, for the widths 0 and 50
newPosition(clientX, left, width) ==
  IF width = 0 THEN DivideByZero(clientX - left)
  ELSE Finite(((clientX - left) * 100) \div width)

\* mutant of inRange: only the lower limit is tested
inRangeFrom20(pos) == AtLeast(pos, 20)

\* newPosition >= 20 && newPosition <= 80
inRange(pos) == AtLeast(pos, 20) /\ AtMost(pos, 80)

\* onMouseDown of the divider
handleMouseDown ==
  /\ isDragging' = TRUE
  /\ last' = [op |-> "mousedown"]
  /\ UNCHANGED splitPosition
  /\ UNCHANGED <<graphVars, chatVars, sidebarVars, loginVars>>

\* mouseup on the document: the listener is there while dragging
handleMouseUp ==
  /\ isDragging
  /\ isDragging' = FALSE
  /\ last' = [op |-> "mouseup"]
  /\ UNCHANGED splitPosition
  /\ UNCHANGED <<graphVars, chatVars, sidebarVars, loginVars>>

\* a mouse move over the document; containerRef.current is the container
handleMouseMove(clientX, left, width) ==
  LET pos == newPosition(clientX, left, width)
  IN /\ splitPosition' = IF isDragging /\ inRange(pos) THEN pos ELSE splitPosition
     /\ last' = [op |-> "mousemove", pos |-> pos]
     /\ UNCHANGED isDragging
     /\ UNCHANGED <<graphVars, chatVars, sidebarVars, loginVars>>

\* ------------------------------------------------------------ specifications

NoLast == [op |-> "none"]

\* the useState initial values of ChatInterface, Sidebar, LoginButton, HomeView
InitPage ==
  /\ messages = <<>>
  /\ input = <<>>
  /\ chatLoading = FALSE
  /\ chatPending = <<>>
  /\ uploading = FALSE
  /\ transcriptions = <<>>
  /\ uploadPending = <<>>
  /\ alerts = <<>>
  /\ loginFlows = <<>>
  /\ loginCalls = 0
  /\ splitPosition = Finite(50)
  /\ isDragging = FALSE

InitState ==
  /\ InitPage
  /\ mounted = FALSE
  /\ activeView = "All Nodes"
  /\ graph = EmptyGraph
  /\ loading = FALSE
  /\ err = Null
  /\ pending = <<>>
  /\ epoch = 0
  /\ graphEpoch = 0
  /\ last = NoLast

InitHomeState ==
  /\ data = NoPayload
  /\ activeFilters = InitialFilters
  /\ filteredMemo = [deps |-> <<EmptyGraph, InitialFilters>>,
                     value |-> filtered(EmptyGraph, InitialFilters)]
  /\ InitState

\* normalizeGraph on every payload of NormPayloads, through the mount effect
InitNorm == graphData \in NormPayloads /\ InitHomeState
NextNorm == HomeMount
SpecNorm == InitNorm /\ [][NextNorm]_vars

\* the component of HomeView.jsx under a parent that changes graphData
InitHome == graphData \in HomePayloads /\ InitHomeState
NextHome ==
  \/ HomeMount
  \/ \E p \in HomePayloads : HomeGraphDataChange(p)
  \/ \E filterName \in DOMAIN activeFilters : toggleFilter(filterName)
  \/ \E view \in views : HomeSetActiveView(view)
SpecHome == InitHome /\ [][NextHome]_vars

\* the fetching component (part_001)
Init ==
  /\ graphData = NoPayload
  /\ data \in DataProps
  /\ activeFilters = InitialFilters1
  /\ filteredMemo = [deps |-> <<EmptyGraph, InitialFilters1>>,
                     value |-> filtered1(EmptyGraph, InitialFilters1)]
  /\ InitState

Next ==
  \/ Mount
  \/ \E view \in views1 : epoch < MaxSelect /\ setActiveView(view)
  \/ \E filterName \in DOMAIN activeFilters : toggleFilter1(filterName)
  \/ \E i \in 1..Len(pending) : \E outs \in settlementsOf(pending[i].calls) : Settle(i, outs)

Spec == Init /\ [][Next]_vars

\* the All Nodes fetch pending[i] settles with the payloads feat and stake of
\* const [feat, stake] = await Promise.all(...): the rest of fetchGraphForView
SettleAllNodes(i, feat, stake) ==
  LET f == pending[i]
      A == normalizeGraph1(feat)
      B == normalizeGraph1(stake)
      r == IF A.threw \/ B.threw THEN Thrown(Str(sTypeError)) ELSE Returned(mergeAllNodes(A, B))
  IN /\ mounted
     /\ f.view = "All Nodes"
     /\ graph' = r.graph
     /\ err' = IF r.threw
               THEN (IF Truthy(r.message) THEN r.message ELSE Str(sFailedToLoad))
               ELSE err
     /\ loading' = FALSE
     /\ pending' = RemoveAt(pending, i)
     /\ graphEpoch' = f.epoch
     /\ filteredMemo' = useMemoFiltered1(filteredMemo, r.graph, activeFilters)
     /\ last' = [op |-> "settle", view |-> f.view, epoch |-> f.epoch, seed |-> f.seed,
                 calls |-> f.calls, outs |-> <<[ok |-> TRUE, value |-> feat, message |-> Undef],
                             [ok |-> TRUE, value |-> stake, message |-> Undef]>>,
                 threw |-> r.threw]
     /\ UNCHANGED <<graphData, data, mounted, activeFilters, activeView, epoch>>
     /\ UNCHANGED pageVars

\* the All Nodes branch on every pair of a payload of NormPayloads and one of
\* undefined, payloadFS, payloadDup, under a data prop that is an object without
\* nodes and links: the mount starts one fetch
InitMerge == Init /\ data = [NoPayload EXCEPT !.k = "obj"]
NextMerge ==
  \/ Mount
  \/ \E i \in 1..Len(pending) : \E feat \in NormPayloads :
       \E stake \in {NoPayload, payloadFS, payloadDup} : SettleAllNodes(i, feat, stake)
SpecMerge == InitMerge /\ [][NextMerge]_vars

\* the page around the graph, with the graph left as it starts
InitIdle == graphData = NoPayload /\ InitHomeState

\* the chat of HomeView.jsx
NextChat ==
  \/ \E value \in ChatInputs : setInput(value)
  \/ SendClick
  \/ SendEnter
  \/ \E i \in 1..Len(chatPending) : \E out \in ChatOutcomes : ChatSettle(i, out)
SpecChat == InitIdle /\ [][NextChat]_vars

\* the upload of Sidebar.jsx
NextUpload ==
  \/ \E file \in Files : handleAudioUpload(file)
  \/ \E i \in 1..Len(uploadPending) : \E out \in UploadOutcomes : UploadSettle(i, out)
SpecUpload == InitIdle /\ [][NextUpload]_vars

\* the login button
NextLogin ==
  \/ LoginClick
  \/ \E i \in 1..Len(loginFlows) : onSuccess(i)
  \/ \E i \in 1..Len(loginFlows) : onError(i)
  \/ \E i \in 1..Len(loginFlows) : \E ok \in BOOLEAN : UserinfoSettle(i, ok)
SpecLogin == InitIdle /\ [][NextLogin]_vars

\* the divider of HomeView
NextSplit ==
  \/ handleMouseDown
  \/ handleMouseUp
  \/ \E clientX \in 0..MaxClientX : \E left \in {0, 10} : \E width \in {0, 50} :
       handleMouseMove(clientX, left, width)
SpecSplit == InitIdle /\ [][NextSplit]_vars

\* ------------------------------------------------------------ claims

\* the elements of a sequence
Elems(seq) == {seq[i] : i \in 1..Len(seq)}

\* the filter keys that are switched on, as label values
EnabledLabels(filters) == {Str(k) : k \in {f \in DOMAIN filters : filters[f]}}

\* C1: a fetch issued under an earlier view selection that settles after the
\* fetch of a later selection has committed its graph (graphEpoch is the epoch
\* of that fetch; a failed fetch leaves the empty graph) does not replace
\* that graph.
C1_StaleFetchDoesNotReplace ==
  [][(/\ Len(pending') < Len(pending)
      /\ last'.op = "settle"
      /\ last'.epoch < graphEpoch
      /\ graph # EmptyGraph)
       => graph' = graph]_vars

\* C2: when a backend call of a fetch rejects, err is set and the graph is
\* left as it was.
C2_FailedFetchKeepsGraph ==
  [][(Len(pending') < Len(pending) /\ last'.op = "settle"
        /\ \E k \in 1..Len(last'.outs) : ~last'.outs[k].ok)
       => (err' # Null /\ graph' = graph)]_vars

\* f is a visible subgraph of g under the enabled labels: its nodes are nodes
\* of g with an enabled label, its links are links of g whose endpoints are
\* ids of nodes of f, and no link of g with an endpoint that no node of f
\* carries is in f
VisibleSubgraph(g, f, enabled, field) ==
  /\ \A n \in Elems(f.nodes) : n \in Elems(g.nodes) /\ n[field] \in enabled
  /\ \A l \in Elems(f.links) :
       /\ l \in Elems(g.links)
       /\ \E n \in Elems(f.nodes) : n.id = EndpointId(l.source)
       /\ \E n \in Elems(f.nodes) : n.id = EndpointId(l.target)
  /\ \A l \in Elems(g.links) :
       (\E n \in Elems(g.nodes) :
          /\ n.id \in {EndpointId(l.source), EndpointId(l.target)}
          /\ n[field] \notin enabled
          /\ \A m \in Elems(f.nodes) : m.id # n.id)
       => l \notin Elems(f.links)

\* C3: the visible subgraph holds only nodes whose label is enabled and only
\* links whose source and target are both visible nodes; a link that touches a
\* node of a disabled label is removed even when its other endpoint is visible.
\* Checked of the filter of HomeView.jsx on the graph and filters of the state,
\* and of the filter of part_001 on the graph of the state under every setting
\* of its four filters.
C3_FilterShowsEnabledOnly ==
  /\ VisibleSubgraph(graph, filtered(graph, activeFilters), EnabledLabels(activeFilters), "label")
  /\ \A fs \in [DOMAIN InitialFilters1 -> BOOLEAN] :
       VisibleSubgraph(graph, filtered1(graph, fs),
                       {Str(StripTrailingS(k)) : k \in {f \in DOMAIN fs : fs[f]}}, "type")

\* Feature is switched off, the graph has the link f1 -> s1 between a Feature
\* and a visible Stakeholder, and the link is not in the visible subgraph
C3_Witness ==
  /\ mounted
  /\ ~activeFilters[sFeature]
  /\ activeFilters[sStakeholder]
  /\ \A i, j \in 1..Len(graph.nodes) : graph.nodes[i].id = graph.nodes[j].id => i = j
  /\ \E l \in Elems(graph.links) : l.source = Str(idF1) /\ l.target = Str(idS1)
  /\ \E n \in Elems(graph.nodes) : n.id = Str(idF1) /\ n.label = Str(sFeature)
  /\ \E n \in Elems(filtered(graph, activeFilters).nodes) : n.id = Str(idS1)
  /\ \A l \in Elems(filtered(graph, activeFilters).links) : l.source # Str(idF1)

C5_NodeIdsUnique ==
  LET g == normalizeGraph(graphData)
  IN (mounted /\ ~g.threw) =>
       \A i, j \in 1..Len(g.nodes) : g.nodes[i].id = g.nodes[j].id => i = j

\* C6: the subgraph handed to the renderer is the filter applied to the graph
\* and the filters of the state, and it shows no node of a disabled label and
\* no link with a hidden endpoint.
C6_RenderedIsFiltered ==
  /\ filteredMemo.value = filtered(graph, activeFilters)
  /\ VisibleSubgraph(graph, filteredMemo.value, EnabledLabels(activeFilters), "label")

\* after a graph replacement and a toggle: the graph has nodes, Feature is
\* switched off, and the rendered subgraph shows fewer nodes than the graph
C6_Witness ==
  /\ mounted
  /\ graph.nodes # <<>>
  /\ ~activeFilters[sFeature]
  /\ \E n \in Elems(graph.nodes) : n.label = Str(sFeature)
  /\ filteredMemo.value.nodes # <<>>
  /\ Len(filteredMemo.value.nodes) < Len(graph.nodes)

\* C7: normalizeGraph returns a graph for every payload and never throws.
C7_NormalizeIsTotal == mounted => ~normalizeGraph(graphData).threw

\* C8: the name of every node of the graph normalizeGraph returns is defined
\* and is not the empty string.
C8_NameNonEmpty ==
  (mounted /\ ~normalizeGraph(graphData).threw) =>
    \A n \in Elems(normalizeGraph(graphData).nodes) :
      ~Nullish(n.name) /\ n.name # Str(<<>>)

\* the nodes of a sequence that are the first of their id
FirstOfEachId(nodes) ==
  LET first == {i \in 1..Len(nodes) : \A j \in 1..(i - 1) : nodes[j].id # nodes[i].id}
      IndexOf[k \in 0..Cardinality(first)] ==
        IF k = 0 THEN 0
        ELSE CHOOSE i \in first : i > IndexOf[k - 1] /\ \A j \in first : j > IndexOf[k - 1] => i <= j
  IN [k \in 1..Cardinality(first) |-> nodes[IndexOf[k]]]

\* C9: the graph the All Nodes view sets is the merge of the normalized
\* payloads (the response of its query, and the second payload, which is
\* undefined): the nodes in order with the first node of every id kept, the
\* links of both in order.
C9_AllNodesMerge ==
  (last.op = "settle" /\ last.view = "All Nodes" /\ ~last.threw) =>
    LET A == normalizeGraph1(last.outs[1].value)
        B == normalizeGraph1(NoPayload)
    IN /\ graph.nodes = FirstOfEachId(A.nodes \o B.nodes)
       /\ graph.links = A.links \o B.links

\* the All Nodes view has set the graph from a payload whose first two nodes
\* share the id f1: the first of them survives with its name, the link stays
C9_Witness ==
  /\ last.op = "settle"
  /\ last.view = "All Nodes"
  /\ ~last.threw
  /\ last.outs[1].value = payloadDup
  /\ Len(graph.nodes) = 2
  /\ graph.nodes[1].id = Str(idF1)
  /\ graph.nodes[1].name = Str(<<"P", "a", "y">>)
  /\ graph.nodes[2].id = Str(idS1)
  /\ Len(graph.links) = 1

\* C10: when the Dependency Chain view has a seed and its neighborhood queries
\* fail, the fetch has issued a feature-overview query at limit 200 and the
\* graph is the normalization of its response, not the empty graph.
C10_NeighborhoodFailureFallsBack ==
  (/\ last.op = "settle"
   /\ last.view = "Dependency Chain"
   /\ last.calls[1].fn = "getFeatureNeighborhood"
   /\ \A k \in 1..Len(last.calls) : ~last.outs[k].ok)
  => \E k \in 1..Len(last.calls) :
       /\ last.calls[k].fn = "getFeaturesOverview"
       /\ last.calls[k].limit = 200
       /\ (last.outs[k].ok => graph.nodes = normalizeGraph1(last.outs[k].value).nodes)

\* the graph has no node of type Feature and none of type Stakeholder
NoFeatureNoStakeholder(g) ==
  \A n \in Elems(g.nodes) : n.type \notin {Str(sFeature), Str(sStakeholder)}

\* C11: selecting Dependency Chain while the graph has no Feature and no
\* Stakeholder node sets no error and issues one fetch whose only call is
\* getFeaturesOverview(200), no neighborhood call; when that call fulfils with
\* a payload normalizeGraph returns on, the graph set is its normalization.
C11_NoSeedFallsBackToOverview ==
  [][/\ (/\ mounted /\ NoData(data)
          /\ activeView # "Dependency Chain" /\ activeView' = "Dependency Chain"
          /\ NoFeatureNoStakeholder(graph))
         => /\ err' = Null
            /\ Len(pending') = Len(pending) + 1
            /\ pending'[Len(pending')].calls = <<Call("getFeaturesOverview", Undef, 200)>>
     /\ (/\ Len(pending') < Len(pending)
          /\ last'.op = "settle" /\ last'.view = "Dependency Chain" /\ last'.seed = Null
          /\ last'.outs[1].ok /\ ~normalizeGraph1(last'.outs[1].value).threw)
         => /\ Len(last'.calls) = 1
            /\ graph'.nodes = normalizeGraph1(last'.outs[1].value).nodes
            /\ graph'.links = normalizeGraph1(last'.outs[1].value).links]_vars

\* Dependency Chain was selected on a graph without Feature and Stakeholder
\* nodes (seed null), and its feature-overview response has been committed
C11_Witness ==
  /\ last.op = "settle"
  /\ last.view = "Dependency Chain"
  /\ last.seed = Null
  /\ last.calls = <<Call("getFeaturesOverview", Undef, 200)>>
  /\ last.outs[1].ok
  /\ err = Null
  /\ graph.nodes = normalizeGraph1(payloadFS).nodes

\* the seed the specification names: the id of the first Feature node, else of
\* the first Stakeholder node, else null
SeedByPreference(g) ==
  IF \E n \in Elems(g.nodes) : n.type = Str(sFeature) THEN firstIdOfType(g.nodes, sFeature)
  ELSE IF \E n \in Elems(g.nodes) : n.type = Str(sStakeholder)
       THEN firstIdOfType(g.nodes, sStakeholder)
  ELSE Null

\* C12: the fetch that selecting Dependency Chain starts has as its seed the id
\* of the first Feature node of the graph of that moment, else of the first
\* Stakeholder node, else null, and a seed that is not null, 0 and '' among
\* them, is the id its neighborhood queries are issued around.
C12_SeedIsFirstFeatureThenStakeholder ==
  [][(/\ mounted /\ NoData(data)
      /\ activeView # "Dependency Chain" /\ activeView' = "Dependency Chain")
     => LET f == pending'[Len(pending')]
            seed == SeedByPreference(graph)
        IN /\ Len(pending') = Len(pending) + 1
           /\ f.seed = seed
           /\ seed # Null =>
                 f.calls = <<Call("getFeatureNeighborhood", seed, 500),
                             Call("getStakeholderNeighborhood", seed, 500)>>]_vars

\* C13: every click on a view button of the component without a data prop,
\* the button of the active view included, starts one fetch for that view.
C13_ReselectRefetches ==
  [][(last'.op = "select" /\ last' # last /\ NoData(data))
     => /\ Len(pending') = Len(pending) + 1
        /\ pending'[Len(pending')].view = last'.view]_vars

\* C14: one key of the FilterSet governs the nodes of the graph whose label is
\* not a key of the FilterSet: under every setting of the filters such a node
\* is visible exactly when that key is switched on.
C14_CatchAllKeyGovernsOtherLabels ==
  \E k \in DOMAIN InitialFilters :
    \A fs \in [DOMAIN InitialFilters -> BOOLEAN] :
      \A n \in Elems(graph.nodes) :
        n.label \notin {Str(key) : key \in DOMAIN InitialFilters}
          => ((n \in Elems(filtered(graph, fs).nodes)) <=> fs[k])

\* C15: the error screen is returned only with a graph without nodes, and no
\* step taken while a graph with at least one node is rendered ends on the
\* error screen.
C15_ErrorScreenOnlyWhenGraphEmpty ==
  [][/\ screenOf(loading', err', graph') = "error" => Len(graph'.nodes) = 0
     /\ (mounted /\ screenOf(loading, err, graph) = "graph" /\ Len(graph.nodes) > 0)
          => screenOf(loading', err', graph') # "error"]_vars

\* the name the specification gives the raw node n: the first of name,
\* props.name, props.role, props.title that is present; else the one derived
\* from the id; else, without an id, the resolved label
NameByPreference(n) ==
  LET supplied == Coalesce(n.name, Coalesce(PropsGet(n, "name"),
                    Coalesce(PropsGet(n, "role"), PropsGet(n, "title"))))
      id == Coalesce(n.id, Coalesce(PropsGet(n, "id"), PropsGet(n, "uid")))
      label == Coalesce(n.label, Coalesce(n.type, Coalesce(PropsGet(n, "label"), Str(sNode))))
  IN IF ~Nullish(supplied) THEN supplied
     ELSE IF ~Nullish(id) THEN Str(NameFromId(String(id).s))
     ELSE label

\* C16: for every raw node object of the payload, normalizeGraph returns a node
\* whose name is the first present of name, props.name, props.role,
\* props.title, else the name derived from its id, else its resolved label.
C16_NameByPreference ==
  mounted =>
    \A n \in Elems(RawNodes(graphData)) :
      n.k = "obj" =>
        /\ ~normalizeNode(n).threw
        /\ normalizeNode(n).node.name = NameByPreference(n)

\* the endpoint ids the specification gives the raw link l: the first present
\* key of each alias list, and the id of that value when it is an object
SourceByAlias(l) ==
  EndpointId(Coalesce(l.source, Coalesce(l.from, Coalesce(l.start,
               Coalesce(l.src, Coalesce(l.u, l.s))))))
TargetByAlias(l) ==
  EndpointId(Coalesce(l.target, Coalesce(l.to, Coalesce(l.end,
               Coalesce(l.dst, Coalesce(l.v, l.t))))))

\* the raw links whose two endpoint ids are ids of nodes
KeptByAlias(rawLinks, nodeIds) ==
  SelectSeq(rawLinks, LAMBDA l : SetHas(nodeIds, SourceByAlias(l))
                                 /\ SetHas(nodeIds, TargetByAlias(l)))

\* the links are the raw links of kept, in order, with their endpoint ids
LinksAre(links, kept) ==
  /\ Len(links) = Len(kept)
  /\ \A i \in 1..Len(links) :
       /\ EndpointId(links[i].source) = SourceByAlias(kept[i])
       /\ EndpointId(links[i].target) = TargetByAlias(kept[i])

\* C17: the links normalizeGraph returns are the raw links whose endpoints,
\* read from the first present alias and from the id of an object value, are
\* node ids; checked of the normalizer of HomeView.jsx and of part_001.
C17_EndpointsByAlias ==
  LET g == normalizeGraph(graphData)
      g1 == normalizeGraph1(graphData)
  IN /\ (mounted /\ ~g.threw)
          => LinksAre(g.links, KeptByAlias(RawLinks(graphData), NodeIds(g.nodes)))
     /\ ~g1.threw => LinksAre(g1.links, KeptByAlias(RawLinks(graphData), NodeIds(g1.nodes)))

\* the parts of a graph the idempotence is stated of
NodeView(nodes) ==
  [i \in 1..Len(nodes) |->
     [id |-> nodes[i].id, label |-> nodes[i].label, type |-> nodes[i].type, name |-> nodes[i].name]]
LinkView(links) ==
  [i \in 1..Len(links) |->
     [source |-> links[i].source, target |-> links[i].target, type |-> links[i].type]]

\* C18: normalizing the graph normalizeGraph returned returns a graph with the
\* same node ids, labels and names and the same links (source, target, type);
\* checked of the normalizer of HomeView.jsx and of part_001.
C18_NormalizeIsIdempotent ==
  LET g == normalizeGraph(graphData)
      gg == normalizeGraph(ObjPayload(g.nodes, g.links))
      g1 == normalizeGraph1(graphData)
      gg1 == normalizeGraph1(ObjPayload(g1.nodes, g1.links))
  IN /\ ~g.threw =>
          /\ ~gg.threw
          /\ NodeView(gg.nodes) = NodeView(g.nodes)
          /\ LinkView(gg.links) = LinkView(g.links)
     /\ ~g1.threw =>
          /\ ~gg1.threw
          /\ NodeView(gg1.nodes) = NodeView(g1.nodes)
          /\ LinkView(gg1.links) = LinkView(g1.links)

\* the graph was set from a payload with a node whose name came from its id
\* and a link given under from/to with a label; normalizing the graph again
\* changes nothing
C18_Witness ==
  /\ mounted
  /\ Len(graph.nodes) = 2
  /\ graph.nodes[1].id = Str(idFA)
  /\ RawNodes(graphData)[1].name = Undef
  /\ graph.nodes[1].name = Str(<<"a", " ", "b">>)
  /\ Len(graph.links) = 1
  /\ RawLinks(graphData)[1].from = Str(idS1)
  /\ graph.links[1].source = Str(idS1)
  /\ graph.links[1].target = Str(idFA)
  /\ normalizeGraph(ObjPayload(graph.nodes, graph.links)).nodes = graph.nodes
  /\ normalizeGraph(ObjPayload(graph.nodes, graph.links)).links = graph.links

\* the overview query of a view with a single query
overviewOf(view) ==
  IF view = "Stakeholder Impact" THEN "getStakeholdersOverview" ELSE "getFeaturesOverview"

\* C19: without a data prop, selecting Stakeholder Impact or Feature Clusters
\* starts one fetch whose only call is the overview query of that view, and
\* when the call fulfils with a payload normalizeGraph returns on, the graph
\* set is the normalization of that response.
C19_SingleOverviewQuery ==
  [][/\ (/\ mounted /\ NoData(data)
          /\ activeView' # activeView
          /\ activeView' \in {"Stakeholder Impact", "Feature Clusters"})
         => /\ Len(pending') = Len(pending) + 1
            /\ pending'[Len(pending')].calls = <<Call(overviewOf(activeView'), Undef, 500)>>
     /\ (/\ Len(pending') < Len(pending)
          /\ last'.op = "settle"
          /\ last'.view \in {"Stakeholder Impact", "Feature Clusters"}
          /\ last'.outs[1].ok /\ ~normalizeGraph1(last'.outs[1].value).threw)
         => /\ Len(last'.calls) = 1
            /\ last'.calls[1].fn = overviewOf(last'.view)
            /\ graph'.nodes = normalizeGraph1(last'.outs[1].value).nodes
            /\ graph'.links = normalizeGraph1(last'.outs[1].value).links]_vars

\* the stakeholder overview of the Stakeholder Impact view has been committed:
\* the node s1 with the type and the name normalizeGraph gave it
C19_Witness ==
  /\ last.op = "settle"
  /\ last.view = "Stakeholder Impact"
  /\ last.calls = <<Call("getStakeholdersOverview", Undef, 500)>>
  /\ last.outs[1].ok
  /\ last.outs[1].value = payloadS
  /\ Len(graph.nodes) = 1
  /\ graph.nodes[1].type = Str(sStakeholder)
  /\ graph.nodes[1].name = Str(<<"A", "l">>)

\* the six labels with a colour of their own, and labels outside the table
PaletteLabels ==
  {Str(sFeature), Str(sStakeholder), Str(sConstraint), Str(sRequirement), Str(sTestCase), Str(sTeam)}
OtherLabels == {Str(sNode), Str(sEntity), Str(<<>>), Undef}

\* C20: in the mounted component colorForType gives the six labels six
\* pairwise distinct colours and every other label one colour that none of
\* the six has; checked of colorForType of HomeView.jsx and of part_001.
C20_SixColoursAndFallback ==
  mounted =>
    /\ \A a, b \in PaletteLabels : a # b => colorForType(a) # colorForType(b)
    /\ \A o, p \in OtherLabels : colorForType(o) = colorForType(p)
    /\ \A o \in OtherLabels : \A a \in PaletteLabels : colorForType(o) # colorForType(a)
    /\ \A a, b \in PaletteLabels : a # b => colorForType1(a) # colorForType1(b)
    /\ \A o, p \in OtherLabels : colorForType1(o) = colorForType1(p)
    /\ \A o \in OtherLabels : \A a \in PaletteLabels : colorForType1(o) # colorForType1(a)

\* ------------------------------------------------------------ claims C21..C30

\* the text is empty or made of whitespace only
IsBlank(cs) == \A i \in 1..Len(cs) : cs[i] = " "

\* C21: in the chat, sending with an empty or whitespace-only input issues no
\* backend request and leaves the message list, the input and the loading flag
\* unchanged.
C21_BlankSendDoesNothing ==
  [][ (last'.op = "handleSend" /\ IsBlank(input))
        => /\ chatPending' = chatPending
           /\ messages' = messages
           /\ input' = input
           /\ chatLoading' = chatLoading ]_vars

\* a whitespace-only input was sent with Enter while a request was in flight
C21_Witness ==
  /\ last.op = "handleSend"
  /\ ~last.sent
  /\ input = <<" ", " ">>
  /\ Len(messages) = 1
  /\ Len(chatPending) = 1
  /\ chatLoading

\* C22: when a chat request fails, exactly one bot message carrying the error
\* text is appended after the user's message, no earlier message is removed or
\* altered, and the loading flag returns to false; the same loading reset
\* happens on success.
C22_FailedRequestAppendsOneError ==
  [][ (last'.op = "chatSettle" /\ Len(chatPending') < Len(chatPending))
        => /\ chatLoading' = FALSE
           /\ ~last'.ok =>
                /\ messages' = Append(messages, [sender |-> "bot", text |-> <<sUnreachable>>])
                /\ \E j \in 1..Len(messages) :
                     messages[j] = [sender |-> "user", text |-> last'.query] ]_vars

\* a request failed after an earlier exchange: the error is the third message
C22_Witness ==
  /\ last.op = "chatSettle"
  /\ ~last.ok
  /\ Len(messages) = 4
  /\ messages[2] = [sender |-> "bot", text |-> <<"A">>]
  /\ messages[3].sender = "user"
  /\ messages[4] = [sender |-> "bot", text |-> <<sUnreachable>>]
  /\ ~chatLoading

\* C29: at most one chat request is in flight at any time: while loading is
\* true, neither the Send button nor the Enter key starts another request or
\* appends another user message.
C29_AtMostOneChatRequest ==
  [][ (last'.op = "handleSend" /\ chatLoading)
        => /\ chatPending' = chatPending
           /\ messages' = messages ]_vars

\* the alert the claim expects for a file that is not audio
sUnsupported == "Unsupported file type!"

\* the types of the formats the sidebar names: MP3, WAV, M4A
SupportedAudio == {"audio/mpeg", "audio/wav", "audio/x-m4a", "audio/mp4"}

\* C23: uploading a file whose type is not a supported audio type is rejected:
\* the user is alerted 'Unsupported file type!', no transcription request is
\* sent to the backend, and the transcription list and the uploading flag are
\* unchanged.
C23_UnsupportedFileRejected ==
  [][ (/\ last'.op = "handleAudioUpload"
       /\ last'.file # NoFile
       /\ last'.file.type \notin SupportedAudio)
        => /\ alerts' = Append(alerts, <<sUnsupported>>)
           /\ uploadPending' = uploadPending
           /\ transcriptions' = transcriptions
           /\ uploading' = uploading ]_vars

\* C24: clicking the login button several times before the first login flow
\* has completed results in login() being invoked at most once.
C24_LoginAtMostOnce ==
  (\A i \in 1..Len(loginFlows) : loginFlows[i].early) => loginCalls <= 1

\* the position is a percentage from 20 to 80
SplitInRange == splitPosition.kind = "finite" /\ splitPosition.value \in 20..80

\* the position changes only by a mouse move to a position in range during a
\* drag
SplitStep ==
  /\ splitPosition' # splitPosition
       => isDragging /\ last'.op = "mousemove" /\ splitPosition' = last'.pos
  /\ (last'.op = "mousemove" /\ (~isDragging \/ ~(last'.pos.kind = "finite" /\ last'.pos.value \in 20..80)))
       => splitPosition' = splitPosition

\* C30: the split position of the home view always stays within 20 and 80
\* percent (initially 50) and changes only while a drag is in progress: a mouse
\* move outside that range or while not dragging leaves it unchanged.
C30_SplitStaysInRange ==
  /\ splitPosition = [kind |-> "finite", value |-> 50]
  /\ []SplitInRange
  /\ [][SplitStep]_vars

\* a drag has moved the divider to the upper limit and a later move beyond it
\* was ignored
C30_Witness ==
  /\ isDragging
  /\ splitPosition = [kind |-> "finite", value |-> 80]
  /\ last.op = "mousemove"
  /\ last.pos = [kind |-> "finite", value |-> 100]
  /\ last.pos.value > 80

\* the two graph invariants: ids pairwise distinct, endpoints among the nodes
IdsDistinct(g) ==
  \A i, j \in 1..Len(g.nodes) : g.nodes[i].id = g.nodes[j].id => i = j

EndpointsAmongNodes(g) ==
  \A l \in Elems(g.links) :
    /\ \E n \in Elems(g.nodes) : n.id = EndpointId(l.source)
    /\ \E n \in Elems(g.nodes) : n.id = EndpointId(l.target)

C26_LoadingTracksFetches ==
  mounted => (loading <=> pending # <<>>)

\* C27: when the component mounts without parent-supplied data, exactly one
\* fetch is issued for the initial view 'All Nodes' (the mount effect and the
\* view-change effect do not both fetch).
C27_OneFetchOnMount ==
  [][ (~mounted /\ mounted' /\ data.k \in {"undef", "null"})
        => /\ Len(pending') = Len(pending) + 1
           /\ pending'[Len(pending')].view = "All Nodes" ]_vars

\* C28: when the parent supplies a data prop that contains nodes or links, the
\* component is parent-controlled: no backend query is issued on mount or on
\* any later sequence of view switches or filter toggles, and the graph stays
\* the normalization of that data.
C28_ParentControlled ==
  (data.k = "obj" /\ (data.nodesIsArray \/ data.linksIsArray))
    => /\ pending = <<>>
       /\ mounted => /\ graph.nodes = normalizeGraph1(data).nodes
                     /\ graph.links = normalizeGraph1(data).links

\* under a data prop with a graph the view was switched twice and a filter is
\* off
C28_Witness ==
  /\ data = payloadFS
  /\ mounted
  /\ epoch = 2
  /\ activeView = "Dependency Chain"
  /\ \E name \in DOMAIN activeFilters : ~activeFilters[name]
  /\ Len(graph.nodes) = 2
  /\ pending = <<>>
====
